---- MODULE Spec2Model ----
(***************************************************************************)
(* Model of the JNI code generator of stimulus                             *)
(* (src/src/stimulus/generators/java.py).                                  *)
(*                                                                         *)
(* Text is modelled as sequences of lines, a line being a sequence of      *)
(* string tokens; a conversion template is a line whose placeholders       *)
(* (%C%, %I%, %J%, %C1%) are tokens of their own, so that str.replace is   *)
(* a token replacement.  A Python str that the code slices or indexes (a   *)
(* function name) is a sequence of one-character strings.                  *)
(***************************************************************************)
EXTENDS Integers, Sequences, FiniteSets, TLC

VARIABLES types, metadata, deps, out, log, raised, hist, run

vars == <<types, metadata, deps, out, log, raised, hist, run>>

\* Number of generate_function calls made on one generator.
MaxCalls == 2

\* Number of calls made on a generator that is handed the same functions
\* again.
MaxRepeat == 3

\* The value of an absent optional (Python None).
None == "<None>"

(***************************************************************************)
(* Strings                                                                 *)
(***************************************************************************)
Lowercase == <<"a","b","c","d","e","f","g","h","i","j","k","l","m",
               "n","o","p","q","r","s","t","u","v","w","x","y","z">>
Uppercase == <<"A","B","C","D","E","F","G","H","I","J","K","L","M",
               "N","O","P","Q","R","S","T","U","V","W","X","Y","Z">>

\* str.upper() of one character.
upper(c) ==
  IF \E i \in 1..Len(Lowercase) : Lowercase[i] = c
  THEN Uppercase[CHOOSE i \in 1..Len(Lowercase) : Lowercase[i] = c]
  ELSE c

\* str.lower() of one character.
lower(c) ==
  IF \E i \in 1..Len(Uppercase) : Uppercase[i] = c
  THEN Lowercase[CHOOSE i \in 1..Len(Uppercase) : Uppercase[i] = c]
  ELSE c

\* str.capitalize(): first character upper-cased, the rest lower-cased.
capitalize(s) ==
  [i \in 1..Len(s) |-> IF i = 1 THEN upper(s[i]) ELSE lower(s[i])]

\* The Python str a sequence of characters stands for.
RECURSIVE Str(_)
Str(cs) == IF cs = <<>> THEN "" ELSE Head(cs) \o Str(Tail(cs))

\* s.split("_"): the parts between underscores (always at least one part).
RECURSIVE split(_, _, _)
split(s, i, cur) ==
  IF i > Len(s) THEN <<cur>>
  ELSE IF s[i] = "_" THEN <<cur>> \o split(s, i + 1, <<>>)
  ELSE split(s, i + 1, Append(cur, s[i]))

RECURSIVE joinParts(_)
joinParts(parts) ==
  IF parts = <<>> THEN <<>> ELSE Head(parts) \o joinParts(Tail(parts))

camelcase(s) ==
  LET parts == split(s, 1, <<>>)
  IN  Head(parts) \o
      joinParts([i \in 1..(Len(parts) - 1) |-> capitalize(parts[i + 1])])

\* line.replace(from, to) for a placeholder token.
replace(line, from, to) ==
  [i \in 1..Len(line) |-> IF line[i] = from THEN to ELSE line[i]]

\* sep.join(items) where every item is a line (a sequence of tokens).
RECURSIVE join(_, _)
join(items, sep) ==
  IF items = <<>> THEN <<>>
  ELSE IF Len(items) = 1 THEN items[1]
  ELSE items[1] \o <<sep>> \o join(Tail(items), sep)

\* [x for x in lines if x != ""]
nonEmpty(lines) == SelectSeq(lines, LAMBDA l : l # <<>>)

(***************************************************************************)
(* The type table (self.types): a dict from a type id to a type            *)
(* descriptor, itself a dict with optional keys CTYPE, JAVATYPE, CDECL,    *)
(* JAVADECL, CALL, INCONV and OUTCONV (the last two keyed by mode).        *)
(***************************************************************************)
EmptyDict == [k \in {} |-> None]

Modes == {"IN", "OUT", "INOUT"}

\* The type tables of the model: which variant of GRAPH, INTEGER and VECTOR
\* each holds.
TableVariants ==
  { <<"full", "full", "full">>, <<"absent", "full", "full">>,
    <<"nocall", "full", "plain">>, <<"full", "noout", "full">>,
    <<"full", "noconv", "plain">>, <<"full", "noctype", "full">>,
    <<"nojava", "noconv", "full">> }

GraphDesc(v) ==
  IF v = "full"
  THEN [CTYPE |-> "igraph_t", JAVATYPE |-> "jobject",
        CALL |-> <<"&", "%C%">>,
        INCONV |-> ("IN" :> <<"alloc", "%C%", "from", "%I%", ";">>) @@
                   ("OUT" :> <<"alloc", "%C%", ";">>),
        OUTCONV |-> ("IN" :> <<"free", "%C%", ";">>) @@
                    ("OUT" :> <<"%I%", "=", "wrap", "%C%", ";",
                                "free", "%C%", ";">>) @@
                    ("INOUT" :> <<"sync", "%I%", "%C%", ";">>)]
  ELSE IF v = "nocall"
  THEN [CTYPE |-> "igraph_t", JAVATYPE |-> "jobject",
        OUTCONV |-> ("OUT" :> <<"%I%", "=", "wrap", "%C%", ";">>)]
  ELSE [CTYPE |-> "igraph_t"]

IntegerDesc(v) ==
  CASE v = "full" ->
         [CTYPE |-> "igraph_integer_t", JAVATYPE |-> "jlong",
          INCONV |-> ("IN" :> <<"%C%", "=", "%I%", ";">>),
          OUTCONV |-> ("OUT" :> <<"%I%", "=", "%C%", ";">>)]
    [] v = "noout" ->
         [CTYPE |-> "igraph_integer_t", JAVATYPE |-> "jlong",
          INCONV |-> ("IN" :> <<"%C%", "=", "%I%", ";">>),
          OUTCONV |-> ("IN" :> <<"nop", "%C%", ";">>)]
    [] v = "noconv" ->
         [CTYPE |-> "igraph_integer_t", JAVATYPE |-> "jlong"]
    [] OTHER ->
         [JAVATYPE |-> "jlong"]

VectorDesc(v) ==
  IF v = "full"
  THEN [CTYPE |-> "igraph_vector_t", JAVATYPE |-> "jdoubleArray",
        CDECL |-> <<"igraph_vector_t", " ", "%C%", ";", "/* ", "%I%", " */">>,
        INCONV |-> ("IN" :> <<"alloc", "%C%", "from", "%I%", ";">>) @@
                   ("OUT" :> <<"alloc", "%C%", "size", "%C1%", ";">>) @@
                   ("INOUT" :> <<"alloc", "%C%", "from", "%I%", ";">>),
        OUTCONV |-> ("IN" :> <<"free", "%C%", ";">>) @@
                    ("OUT" :> <<"%I%", "=", "tojava", "%C%", ";",
                                "free", "%C%", ";">>) @@
                    ("INOUT" :> <<"free", "%C%", ";">>)]
  ELSE [CTYPE |-> "igraph_vector_t", JAVATYPE |-> "jdoubleArray",
        JAVADECL |-> <<"jdoubleArray", " ", "%J%", "=", "0", ";">>,
        INCONV |-> ("IN" :> <<"alloc", "%C%", "from", "%I%", ";">>),
        OUTCONV |-> ("IN" :> <<"free", "%C%", ";">>)]

TypeTable(g, i, v) ==
  (IF g = "absent" THEN EmptyDict ELSE "GRAPH" :> GraphDesc(g)) @@
  ("INTEGER" :> IntegerDesc(i)) @@
  ("VECTOR" :> VectorDesc(v))

Tables == {TypeTable(v[1], v[2], v[3]) : v \in TableVariants}

(***************************************************************************)
(* The function descriptors (the generator's function set).  A descriptor  *)
(* has the native name, optional attributes (NAME-JAVA), an optional       *)
(* return type, the parameters in declared order and the dependencies of   *)
(* its parameters.                                                         *)
(***************************************************************************)
Param(n, m, t) == [name |-> n, mode |-> m, type |-> t]

Prefix == <<"i", "g", "r", "a", "p", "h", "_">>

FunctionDescriptors ==
  { [name |-> Prefix \o <<"v", "c", "o", "u", "n", "t">>,
     attrs |-> EmptyDict, return_type |-> "INTEGER",
     params |-> <<Param("graph", "IN", "GRAPH")>>,
     deps |-> EmptyDict],
    [name |-> Prefix \o <<"u", "n", "i", "o", "n">>,
     attrs |-> EmptyDict, return_type |-> "INTEGER",
     params |-> <<Param("a", "IN", "INTEGER"), Param("b", "IN", "GRAPH"),
                  Param("c", "IN", "GRAPH")>>,
     deps |-> EmptyDict],
    [name |-> Prefix \o <<"e", "m", "p", "t", "y">>,
     attrs |-> EmptyDict, return_type |-> None,
     params |-> <<Param("graph", "OUT", "GRAPH"),
                  Param("n", "IN", "INTEGER")>>,
     deps |-> EmptyDict],
    [name |-> Prefix \o <<"c", "o", "p", "y">>,
     attrs |-> EmptyDict, return_type |-> "INTEGER",
     params |-> <<Param("to", "OUT", "GRAPH"),
                  Param("from", "IN", "GRAPH")>>,
     deps |-> EmptyDict],
    [name |-> Prefix \o <<"d", "e", "g", "r", "e", "e">>,
     attrs |-> EmptyDict, return_type |-> "INTEGER",
     params |-> <<Param("graph", "IN", "GRAPH"),
                  Param("res", "OUT", "VECTOR"),
                  Param("vids", "IN", "VECTOR")>>,
     deps |-> ("res" :> <<"vids">>)],
    [name |-> Prefix \o <<"r", "e", "w", "i", "r", "e">>,
     attrs |-> EmptyDict, return_type |-> "INTEGER",
     params |-> <<Param("graph", "INOUT", "GRAPH"),
                  Param("n", "IN", "INTEGER")>>,
     deps |-> EmptyDict],
    [name |-> Prefix \o <<"v", "e", "c", "_", "s", "O", "r", "t">>,
     attrs |-> EmptyDict, return_type |-> None,
     params |-> <<Param("v", "INOUT", "VECTOR")>>,
     deps |-> EmptyDict],
    [name |-> Prefix \o <<"l", "a", "y", "o", "u", "t">>,
     attrs |-> EmptyDict, return_type |-> "INTEGER",
     params |-> <<Param("graph", "IN", "GRAPH"),
                  Param("x", "OUT", "VECTOR"),
                  Param("y", "INOUT", "MISSING")>>,
     deps |-> EmptyDict],
    [name |-> Prefix \o <<"v", "e", "r", "s", "i", "o", "n">>,
     attrs |-> EmptyDict, return_type |-> None,
     params |-> <<Param("n", "IN", "MISSING")>>,
     deps |-> EmptyDict],
    [name |-> Prefix \o <<"r", "n", "g", "_", "s", "e", "e", "d">>,
     attrs |-> ("NAME-JAVA" :> <<"s", "e", "e", "d">>),
     return_type |-> "INTEGER",
     params |-> <<Param("n", "IN", "INTEGER")>>,
     deps |-> EmptyDict],
    [name |-> Prefix \o <<"a", "t", "t", "r">>,
     attrs |-> EmptyDict, return_type |-> "INTEGER",
     params |-> <<Param("graph", "IN", "GRAPH"),
                  Param("key", "IN", "MISSING")>>,
     deps |-> EmptyDict],
    [name |-> Prefix \o <<"s", "i", "z", "e">>,
     attrs |-> EmptyDict, return_type |-> "MISSING",
     params |-> <<Param("v", "IN", "VECTOR")>>,
     deps |-> EmptyDict] }

FunctionNames == {d.name : d \in FunctionDescriptors}

\* CodeGeneratorBase.get_function_descriptor
get_function_descriptor(name) ==
  CHOOSE d \in FunctionDescriptors : d.name = name

\* CodeGeneratorBase.get_parameters_for_function: the parameters in order.
get_parameters_for_function(name) == get_function_descriptor(name).params

\* CodeGeneratorBase.get_dependencies_for_function
get_dependencies_for_function(name) == get_function_descriptor(name).deps

\* ParamSpec.is_output
is_output(p) == p.mode \in {"OUT", "INOUT"}

(***************************************************************************)
(* JavaCodeGenerator.get_function_metadata                                 *)
(***************************************************************************)
\* A raised exception, and a normal return.
Raise(exc, msg) == [ok |-> FALSE, exc |-> exc, error |-> msg]
Return(v) == [ok |-> TRUE, value |-> v]

\* self.types.get(type_name, {})
types_get(type_name) ==
  IF type_name \in DOMAIN types THEN types[type_name] ELSE EmptyDict

\* [p for p in params if p.mode_str == mode], in declared order
params_of_mode(params, mode) == SelectSeq(params, LAMBDA p : p.mode = mode)

\* data["name"] before the static adjustment
base_name(name) ==
  LET spec == get_function_descriptor(name)
  IN  IF "NAME-JAVA" \in DOMAIN spec.attrs
      THEN spec.attrs["NAME-JAVA"]
      ELSE camelcase(SubSeq(name, 8, Len(name)))

\* A resolution in which a declared return type wins over an output parameter.
return_type_name_declared(spec, params) ==
  LET outs == params_of_mode(params, "OUT")
      inouts == params_of_mode(params, "INOUT")
  IN  IF Len(outs) + Len(inouts) <= 1 /\ spec.return_type # None
      THEN spec.return_type
      ELSE IF Len(outs) + Len(inouts) = 1
      THEN IF Len(outs) > 0 THEN outs[1].type ELSE inouts[1].type
      ELSE None

\* A resolution that takes the first output parameter of several.
return_type_name_first(spec, params) ==
  LET outs == params_of_mode(params, "OUT")
      inouts == params_of_mode(params, "INOUT")
  IN  IF Len(outs) + Len(inouts) >= 1
      THEN IF Len(outs) > 0 THEN outs[1].type ELSE inouts[1].type
      ELSE IF spec.return_type # None
      THEN spec.return_type
      ELSE None

\* The name of the return type, or None when the calling convention is
\* unsupported.
return_type_name(spec, params) ==
  LET outs == params_of_mode(params, "OUT")
      inouts == params_of_mode(params, "INOUT")
  IN  IF Len(outs) + Len(inouts) = 1
      THEN IF Len(outs) > 0 THEN outs[1].type ELSE inouts[1].type
      ELSE IF Len(outs) + Len(inouts) = 0 /\ spec.return_type # None
      THEN spec.return_type
      ELSE None

\* A receiver test that forgets that a receiver was already found.
takes_self_any(found_self, p) == p.type = "GRAPH"

\* Whether an IN parameter becomes the 'self' argument.
takes_self(found_self, p) == ~found_self /\ p.type = "GRAPH"

\* The loop through the input parameters, from parameter i on.
RECURSIVE scan_inputs(_, _, _, _, _)
scan_inputs(params, i, type_param, dname, acc) ==
  IF i > Len(params) \/ acc.error # None THEN acc
  ELSE
    LET p == params[i]
        tdesc == types_get(p.type)
    IN  IF p.mode # "IN"
        THEN scan_inputs(params, i + 1, type_param, dname, acc)
        ELSE IF takes_self(acc.found_self, p)
        THEN scan_inputs(params, i + 1, type_param, dname,
                         [acc EXCEPT !.found_self = TRUE,
                                     !.self_name = p.name])
        ELSE IF type_param \notin DOMAIN tdesc
        THEN [acc EXCEPT !.error =
                Str(dname) \o ": unknown input type " \o p.type \o
                " (needs " \o type_param \o "), skipping"]
        ELSE scan_inputs(params, i + 1, type_param, dname,
                         [acc EXCEPT !.method_arguments =
                            Append(@, <<tdesc[type_param], " ", p.name>>)])

\* The first OUT parameter of type GRAPH, or None.
first_out_graph(params) ==
  LET idx == {i \in 1..Len(params) :
                params[i].mode = "OUT" /\ params[i].type = "GRAPH"}
  IN  IF idx = {} THEN None
      ELSE params[CHOOSE i \in idx : \A j \in idx : i <= j].name

\* data["name"][0].upper() + data["name"][1:]
upper_first(n) == <<upper(n[1])>> \o SubSeq(n, 2, Len(n))

\* The tail of get_function_metadata: what it raises or returns, given the
\* name, the name of the return type (rtn), the result of the loop over the
\* input parameters (scan) and the first OUT parameter of type GRAPH.
metadata_result(type_param, dname, rtn, scan, out_graph) ==
  LET self_name == IF scan.found_self THEN scan.self_name ELSE out_graph
      found_self == scan.found_self \/ out_graph # None
  IN  IF rtn = None
      THEN Raise("StimulusError",
                 Str(dname) \o ": calling convention unsupported yet")
      ELSE IF scan.error # None
      THEN Raise("StimulusError", scan.error)
      ELSE IF type_param \notin DOMAIN types_get(rtn)
      THEN Raise("StimulusError",
                 Str(dname) \o ": unknown return type " \o rtn \o
                 ", skipping")
      ELSE Return(
        [name |-> IF found_self THEN dname ELSE upper_first(dname),
         java_modifiers |-> IF found_self THEN <<"public">>
                            ELSE <<"public", " ", "static">>,
         argument_types |-> scan.method_arguments,
         return_type |-> types_get(rtn)[type_param],
         is_static |-> ~found_self,
         is_constructor |-> FALSE] @@
        (IF found_self THEN "self_name" :> self_name ELSE EmptyDict))

get_function_metadata(name, type_param) ==
  metadata_result(
    type_param,
    base_name(name),
    return_type_name(get_function_descriptor(name),
                     get_parameters_for_function(name)),
    scan_inputs(get_parameters_for_function(name), 1, type_param,
                base_name(name),
                [found_self |-> FALSE, self_name |-> None,
                 method_arguments |-> <<>>, error |-> None]),
    first_out_graph(get_parameters_for_function(name)))

(***************************************************************************)
(* JavaCCodeGenerator: the chunks                                          *)
(***************************************************************************)
\* JavaCodeGenerator.package
package == <<"n", "e", "t", ".", "s", "f", ".", "i", "g", "r", "a", "p", "h">>

\* A header that always takes the class.
header_receiver_cls(data) == <<"jclass cls">>

\* The first foreign argument after the environment pointer.
header_receiver(data) ==
  IF data.is_static THEN <<"jclass cls">>
  ELSE <<"jobject " \o data.self_name>>

\* The header line of a function whose metadata is data.
header_line(data) ==
  <<"JNIEXPORT", " ", data.return_type, " ", "JNICALL", " ",
    "Java_" \o Str(replace(package, ".", "_")) \o "_Graph_" \o
    Str(data.name), "(">> \o
  join(<<<<"JNIEnv *env">>, header_receiver(data)>> \o data.argument_types,
       ", ") \o
  <<")">>

\* The header, given what get_function_metadata(function, "JAVATYPE") did.
header_of(md) == IF ~md.ok THEN md ELSE Return(header_line(md.value))

chunk_header(function, params) ==
  header_of(get_function_metadata(function, "JAVATYPE"))

\* "  " + template, or "" when there is none
indented(template) == <<"  ">> \o template

\* do_cpar of chunk_declaration
do_cpar(p) ==
  LET cname == "c_" \o p.name
      t == types[p.type]
      decl == IF "CDECL" \in DOMAIN t THEN indented(t.CDECL)
              ELSE IF "CTYPE" \in DOMAIN t
              THEN <<"  ", t.CTYPE, " ", cname, ";">>
              ELSE <<>>
  IN  replace(replace(decl, "%C%", cname), "%I%", p.name)

\* do_jpar of chunk_declaration
do_jpar(p) ==
  LET jname == "j_" \o p.name
      t == types[p.type]
      decl == IF "JAVADECL" \in DOMAIN t THEN indented(t.JAVADECL)
              ELSE IF "JAVATYPE" \in DOMAIN t
              THEN <<"  ", t.JAVATYPE, " ", jname, ";">>
              ELSE <<>>
  IN  replace(replace(decl, "%J%", jname), "%I%", p.name)

\* A flag that, once set by a call, stays set for the calls after it.
need_class_decl_sticky(self_metadata, rtname) ==
  /\ ~self_metadata.is_static
  /\ \/ rtname = "GRAPH"
     \/ "need_class_decl" \in DOMAIN metadata /\ metadata.need_class_decl

\* Whether the body declares the class-reference local.
need_class_decl(self_metadata, rtname) ==
  ~self_metadata.is_static /\ rtname = "GRAPH"

\* The chunk and self.metadata["need_class_decl"]; KeyError when the
\* descriptor's return type is no key of the type table.
chunk_declaration(function, params, self_metadata) ==
  LET spec == get_function_descriptor(function)
      inout == [i \in 1..Len(params) |-> do_cpar(params[i])]
      outp == params_of_mode(params, "OUT")
      outd == [i \in 1..Len(outp) |-> do_jpar(outp[i])]
      rnames == SelectSeq(params, is_output)
      rtname == IF Len(rnames) > 0 THEN rnames[1].type
                ELSE spec.return_type
  IN  IF spec.return_type \notin DOMAIN types
      THEN Raise("KeyError", spec.return_type)
      ELSE
        LET rt0 == types[spec.return_type]
            retdecl == IF "CDECL" \in DOMAIN rt0 THEN indented(rt0.CDECL)
                       ELSE IF "CTYPE" \in DOMAIN rt0
                       THEN <<"  ", rt0.CTYPE, " ", "c__result", ";">>
                       ELSE <<>>
            rt == types[rtname]
            jretdecl == IF "JAVADECL" \in DOMAIN rt
                        THEN indented(rt.JAVADECL)
                        ELSE IF "JAVATYPE" \in DOMAIN rt
                        THEN <<"  ", rt.JAVATYPE, " ", "result", ";">>
                        ELSE <<>>
            ncd == need_class_decl(self_metadata, rtname)
            decls == inout \o outd \o <<retdecl, jretdecl>> \o
                     (IF ncd
                      THEN <<<<"  ", "jclass", " ", "cls", "=",
                               "(*env)->GetObjectClass", "(", "env", ", ",
                               self_metadata.self_name, ")", ";">>>>
                      ELSE <<>>)
        IN  [ok |-> TRUE, value |-> nonEmpty(decls), need_class_decl |-> ncd]

chunk_before(function, params) ==
  <<<<"  ", "Java_igraph_before", "(", ")", ";">>>>

\* The replacement of the dependency placeholders %C1%, %C2%, ...
RECURSIVE replace_deps(_, _, _)
replace_deps(line, dlist, i) ==
  IF i > Len(dlist) THEN line
  ELSE replace_deps(replace(line, "%C" \o ToString(i) \o "%",
                            "c_" \o dlist[i]),
                    dlist, i + 1)

\* do_par of chunk_inconv
inconv_par(p, self_deps) ==
  LET cname == "c_" \o p.name
      t == types[p.type]
      inconv == IF "INCONV" \in DOMAIN t /\ p.mode \in DOMAIN t.INCONV
                THEN indented(t.INCONV[p.mode]) ELSE <<>>
      withdeps == IF p.name \in DOMAIN self_deps
                  THEN replace_deps(inconv, self_deps[p.name], 1)
                  ELSE inconv
  IN  replace(replace(withdeps, "%C%", cname), "%I%", p.name)

chunk_inconv(function, params, self_deps) ==
  nonEmpty([i \in 1..Len(params) |-> inconv_par(params[i], self_deps)])

\* An argument that ignores the type's CALL template.
call_argument_plain(t, n) == <<"c_" \o n>>

\* One argument of the native call.
call_argument(t, n) ==
  LET call == IF "CALL" \in DOMAIN t THEN t.CALL ELSE <<"c_" \o n>>
  IN  replace(replace(call, "%C%", "c_" \o n), "%I%", n)

chunk_call(function, params) ==
  LET call == [i \in 1..Len(params) |->
                 call_argument(types[params[i].type], params[i].name)]
  IN  << <<"  ", "if", "(", "(*env)->ExceptionCheck(env)", ")", "{">>,
         <<"    ", "c__result", "=", "IGRAPH_EINVAL", ";">>,
         <<"  ", "}", "else", "{">>,
         <<"    ", "c__result", "=", Str(function), "(">> \o
            join(call, ", ") \o <<")", ";">>,
         <<"  ", "}">> >>

\* do_par of chunk_outconv
outconv_par(p) ==
  LET cname == "c_" \o p.name
      jname == "j_" \o p.name
      t == types[p.type]
      outconv == IF "OUTCONV" \in DOMAIN t /\ p.mode \in DOMAIN t.OUTCONV
                 THEN indented(t.OUTCONV[p.mode]) ELSE <<>>
  IN  replace(replace(outconv, "%C%", cname), "%I%", jname)

\* The result assignment of a function with a single output parameter.
single_output_result(p) ==
  IF p.mode = "OUT" THEN <<"  ", "result", "=", "j_" \o p.name, ";">>
  ELSE <<"  ", "result", "=", p.name, ";">>

\* The guard put around the output conversions of a function with a single
\* output parameter: every line is indented once more.
guarded(outconv) ==
  LET lines == << <<"if", "(", "c__result", "==", "0", ")", "{">> >> \o
               outconv \o
               << <<"}", "else", "{">>, <<"  ", "result", "=", "0", ";">>,
                  <<"}">> >>
  IN  [i \in 1..Len(lines) |-> <<"  ">> \o lines[i]]

chunk_outconv(function, params) ==
  LET spec == get_function_descriptor(function)
      outconv == nonEmpty([i \in 1..Len(params) |-> outconv_par(params[i])])
      retpars == SelectSeq(params, is_output)
  IN  IF Len(retpars) = 0
      THEN LET rt == types[spec.return_type]
           IN  IF "OUTCONV" \in DOMAIN rt /\ "OUT" \notin DOMAIN rt.OUTCONV
               THEN Raise("KeyError", "OUT")
               ELSE
                 LET retconv0 == IF "OUTCONV" \in DOMAIN rt
                                 THEN indented(rt.OUTCONV["OUT"]) ELSE <<>>
                     retconv == replace(replace(retconv0, "%C%", "c__result"),
                                        "%I%", "result")
                 IN  Return(IF Len(retconv) > 0
                            THEN Append(outconv, retconv) ELSE outconv)
      ELSE IF Len(retpars) = 1
      THEN Return(guarded(Append(outconv, single_output_result(retpars[1]))))
      ELSE Raise("StimulusError",
                 Str(function) \o
                 ": the case of multiple outputs not supported yet")

chunk_after(function, params) ==
  <<<<"  ", "Java_igraph_after", "(", ")", ";">>>>

(***************************************************************************)
(* JavaCCodeGenerator.generate_function                                    *)
(***************************************************************************)
\* "/* %s */\n" % str(e)
comment(msg) == <<"/* " \o msg \o " */">>

\* "\n".join(chunk) inside the template: an empty chunk leaves an empty line.
lines_of(chunk) == IF chunk = <<>> THEN << <<>> >> ELSE chunk

\* The template of one function, as lines.
function_text(res) ==
  << <<>>,
     <<"/*-------------------------------------------/">>,
     <<"/ ", Str(res.func), " /">>,
     <<"/-------------------------------------------*/">>,
     res.header \o <<" ", "{">>,
     <<"/* Declarations */">> >> \o
  lines_of(res.decl) \o << <<>> >> \o
  lines_of(res.before) \o << <<"/* Convert input */">> >> \o
  lines_of(res.inconv) \o << <<"/* Call igraph */">> >> \o
  lines_of(res.call) \o << <<"/* Convert output */">> >> \o
  lines_of(res.outconv) \o << <<>> >> \o
  lines_of(res.after) \o
  << <<>>, <<"  ", "return", "result", ";">>, <<"}">> >>

\* The type of the first parameter whose type is no key of the type table,
\* or None.
first_unknown_type(params) ==
  LET idx == {i \in 1..Len(params) : params[i].type \notin DOMAIN types}
  IN  IF idx = {} THEN None
      ELSE params[CHOOSE i \in idx : \A j \in idx : i <= j].type

\* What one call does: the text it writes, the message it logs, the
\* exception it lets escape, and the generator's fields after it.
Outcome(kind, text, logged, exc, m, d) ==
  [kind |-> kind, text |-> text, log |-> logged, raised |-> exc,
   metadata |-> m, deps |-> d, resolved |-> TRUE]

\* A return that writes a comment about the unknown type.
unknown_type_outcome_comment(function, unknown, data, fdeps) ==
  Outcome("comment",
          <<comment("Unknown type " \o unknown \o " in " \o Str(function))>>,
          <<"Unknown type " \o unknown \o " in " \o Str(function)>>,
          None, data, fdeps)

\* The return taken when a parameter's type is no key of the type table.
unknown_type_outcome(function, unknown, data, fdeps) ==
  Outcome("skipped", <<>>,
          <<"Unknown type " \o unknown \o " in " \o Str(function)>>,
          None, data, fdeps)

\* The try block that compiles the output, given self.metadata (data), self.deps
\* (fdeps) and what the chunks that can raise did.
compile_output(function, params, data, fdeps, header, decl, outconv) ==
  IF ~header.ok
  THEN Outcome("comment", <<comment(header.error)>>, <<>>, None, data, fdeps)
  ELSE IF ~decl.ok
  THEN Outcome("raised", <<>>, <<>>, decl.exc, data, fdeps)
  ELSE IF ~outconv.ok /\ outconv.exc = "StimulusError"
  THEN Outcome("comment", <<comment(outconv.error)>>, <<>>, None,
               data @@ ("need_class_decl" :> decl.need_class_decl), fdeps)
  ELSE IF ~outconv.ok
  THEN Outcome("raised", <<>>, <<>>, outconv.exc,
               data @@ ("need_class_decl" :> decl.need_class_decl), fdeps)
  ELSE Outcome("code",
               function_text(
                 [func |-> function, header |-> header.value,
                  decl |-> decl.value,
                  before |-> chunk_before(function, params),
                  inconv |-> chunk_inconv(function, params, fdeps),
                  call |-> chunk_call(function, params),
                  outconv |-> outconv.value,
                  after |-> chunk_after(function, params)]),
               <<>>, None,
               data @@ ("need_class_decl" :> decl.need_class_decl), fdeps)

\* The call after get_function_metadata(function, "CTYPE") did md.
after_metadata(function, params, md, unknown) ==
  IF ~md.ok
  THEN [Outcome("comment", <<comment(md.error)>>, <<>>, None, metadata,
                deps) EXCEPT !.resolved = FALSE]
  ELSE IF unknown # None
  THEN unknown_type_outcome(function, unknown, md.value,
                            get_dependencies_for_function(function))
  ELSE compile_output(function, params, md.value,
                      get_dependencies_for_function(function),
                      chunk_header(function, params),
                      chunk_declaration(function, params, md.value),
                      chunk_outconv(function, params))

generate_function_outcome(function) ==
  after_metadata(function, get_parameters_for_function(function),
                 get_function_metadata(function, "CTYPE"),
                 first_unknown_type(get_parameters_for_function(function)))

\* No generated function has been called: the generated file is compiled
\* and called once the generator has stopped.
NoRun == [function |-> <<>>]

generate_function(function) ==
  /\ raised = None
  /\ run = NoRun
  /\ LET o == generate_function_outcome(function)
     IN  /\ metadata' = o.metadata
         /\ deps' = o.deps
         /\ out' = out \o o.text
         /\ log' = log \o o.log
         /\ raised' = o.raised
         /\ hist' = Append(hist, [function |-> function, kind |-> o.kind,
                                  text |-> o.text,
                                  resolved |-> o.resolved])
  /\ UNCHANGED <<types, run>>

(***************************************************************************)
(* The execution of a generated function body.  The conversion templates   *)
(* of the type table are opaque to the generator; in this model a template *)
(* token "alloc" acquires the resource named by the next token and "free"  *)
(* releases it.  A run is decided by whether a Java exception is pending   *)
(* on entry and by what the native function returns.                       *)
(***************************************************************************)
IGRAPH_EINVAL == 4

NativeReturns == {0, 1}

Uninitialized == "<uninitialized>"

RECURSIVE strip(_)
strip(line) ==
  IF line # <<>> /\ Head(line) \in {"  ", "    "} THEN strip(Tail(line))
  ELSE line

\* The resources a statement acquires (word = "alloc") or releases ("free").
named_after(stmt, word) ==
  {stmt[i + 1] : i \in {k \in 1..(Len(stmt) - 1) : stmt[k] = word}}

\* Whether every enclosing branch is the one taken.
active(stack) == \A i \in 1..Len(stack) : stack[i].taken

exec_line(st, line, exc, ret) ==
  LET s == strip(line)
  IN  IF s = <<>> THEN st
      ELSE IF s[1] = "if"
      THEN LET cond == IF s[3] = "c__result" THEN st.c__result = 0 ELSE exc
           IN  [st EXCEPT !.stack = Append(@, [cond |-> cond, taken |-> cond])]
      ELSE IF s = <<"}", "else", "{">>
      THEN [st EXCEPT !.stack[Len(st.stack)].taken =
                        ~st.stack[Len(st.stack)].cond]
      ELSE IF s = <<"}">>
      THEN IF st.stack = <<>> THEN st
           ELSE [st EXCEPT !.stack = SubSeq(@, 1, Len(@) - 1)]
      ELSE IF ~active(st.stack) THEN st
      ELSE
        LET st1 == [st EXCEPT !.trace = Append(@, s),
                              !.alloc = (@ \cup named_after(s, "alloc"))
                                        \ named_after(s, "free")]
        IN  IF Len(s) >= 3 /\ s[1] = "c__result" /\ s[2] = "="
            THEN [st1 EXCEPT !.c__result =
                    IF s[3] = "IGRAPH_EINVAL" THEN IGRAPH_EINVAL ELSE ret]
            ELSE IF Len(s) >= 3 /\ s[1] = "result" /\ s[2] = "="
            THEN [st1 EXCEPT !.result = s[3]]
            ELSE st1

\* The lines from line i on, run in order (the state after a line is a
\* value before the next line is run).
RECURSIVE exec_lines(_, _, _, _, _)
exec_lines(st, text, i, exc, ret) ==
  IF i > Len(text) THEN st
  ELSE CHOOSE r \in {exec_lines(v, text, i + 1, exc, ret) :
                       v \in {exec_line(st, text[i], exc, ret)}} : TRUE

execute(text, exc, ret) ==
  exec_lines([alloc |-> {}, c__result |-> -1, result |-> Uninitialized,
              stack |-> <<>>, trace |-> <<>>],
             text, 1, exc, ret)

\* The Java caller runs the function generated last; the model follows one
\* call of it.
call_generated(exc, ret) ==
  /\ raised = None
  /\ run = NoRun
  /\ hist # <<>>
  /\ hist[Len(hist)].kind = "code"
  /\ LET st == execute(hist[Len(hist)].text, exc, ret)
     IN  run' = [function |-> hist[Len(hist)].function, exc |-> exc,
                 ret |-> ret, c__result |-> st.c__result,
                 result |-> st.result, alloc |-> st.alloc,
                 trace |-> st.trace]
  /\ UNCHANGED <<types, metadata, deps, out, log, raised, hist>>

(***************************************************************************)
(* The state machine                                                       *)
(***************************************************************************)
Init ==
  /\ types \in Tables
  /\ metadata = EmptyDict
  /\ deps = EmptyDict
  /\ out = <<>>
  /\ log = <<>>
  /\ raised = None
  /\ hist = <<>>
  /\ run = NoRun

Next ==
  \/ \E function \in FunctionNames :
       Len(hist) < MaxCalls /\ generate_function(function)
  \/ \E exc \in BOOLEAN, ret \in NativeReturns : call_generated(exc, ret)

Spec == Init /\ [][Next]_vars

\* A generator that is handed functions again: the functions whose
\* generation sets the generator's fields differently, in any order.
RepeatedNames ==
  {d.name : d \in {e \in FunctionDescriptors :
                     Str(e.name) \in {"igraph_vcount", "igraph_copy",
                                      "igraph_degree", "igraph_rng_seed",
                                      "igraph_layout", "igraph_attr"}}}

NextRepeat ==
  \E function \in RepeatedNames :
    Len(hist) < MaxRepeat /\ generate_function(function)

SpecRepeat == Init /\ [][NextRepeat]_vars

(***************************************************************************)
(* What the claims below refer to                                          *)
(***************************************************************************)
Last == hist[Len(hist)]

\* The last call resolved its metadata, which self.metadata now holds.
Resolved == hist # <<>> /\ Last.resolved

ParamsOf(f) == get_parameters_for_function(f)

OutputsOf(f) == SelectSeq(ParamsOf(f), LAMBDA p : p.mode \in {"OUT", "INOUT"})

\* The entry of a type for a key, or None.
Lookup(type_name, key) ==
  IF type_name \in DOMAIN types /\ key \in DOMAIN types[type_name]
  THEN types[type_name][key] ELSE None

\* The index of the first line of text equal to line, or 0.
IndexOf(text, line) ==
  IF \E k \in DOMAIN text : text[k] = line
  THEN CHOOSE k \in DOMAIN text :
         text[k] = line /\ \A j \in 1..(k - 1) : text[j] # line
  ELSE 0

\* The lines of a generated function strictly between two marker lines.
Between(text, from, to) ==
  SubSeq(text, IndexOf(text, from) + 1, IndexOf(text, to) - 1)

\* A template with the native name c and the foreign name i put in.
Filled(template, c, i) ==
  [k \in DOMAIN template |->
     IF template[k] = "%C%" THEN c
     ELSE IF template[k] = "%I%" THEN i ELSE template[k]]

(***************************************************************************)
(* C1.  Whenever get_function_metadata resolves a function: with exactly   *)
(* one OUT or INOUT parameter the return type is the type_param entry of   *)
(* that parameter's type, whatever return type the descriptor declares;    *)
(* with no OUT/INOUT parameter and a declared return type it is the entry  *)
(* of the declared type.  Checked on self.metadata (CTYPE) and on the      *)
(* return type of the generated header (JAVATYPE).                         *)
(***************************************************************************)
ExpectedReturnTypeName(f) ==
  IF Len(OutputsOf(f)) = 1 THEN OutputsOf(f)[1].type
  ELSE IF Len(OutputsOf(f)) = 0 THEN get_function_descriptor(f).return_type
  ELSE None

C1_ReturnTypeResolution ==
  /\ Resolved =>
       metadata.return_type = Lookup(ExpectedReturnTypeName(Last.function),
                                     "CTYPE")
  /\ \A i \in DOMAIN hist :
       hist[i].kind = "code" =>
         hist[i].text[5][3] =
           Lookup(ExpectedReturnTypeName(hist[i].function), "JAVATYPE")

\* Code was generated for a function with one output parameter whose
\* descriptor declares another return type.
C1_Witness ==
  /\ Resolved
  /\ Last.kind = "code"
  /\ Len(OutputsOf(Last.function)) = 1
  /\ get_function_descriptor(Last.function).return_type
       \notin {None, OutputsOf(Last.function)[1].type}

(***************************************************************************)
(* C2.  A function with two or more OUT/INOUT parameters, or with none and *)
(* no declared return type, never resolves: generate_function writes for   *)
(* it the one comment "calling convention unsupported yet" and nothing     *)
(* else, whatever its types are; and no call ever ends in the "multiple    *)
(* outputs not supported" error of chunk_outconv.                          *)
(***************************************************************************)
Unsupported(f) ==
  \/ Len(OutputsOf(f)) >= 2
  \/ Len(OutputsOf(f)) = 0 /\ get_function_descriptor(f).return_type = None

C2_UnsupportedConvention ==
  \A i \in DOMAIN hist :
    /\ Unsupported(hist[i].function) =>
         /\ ~hist[i].resolved
         /\ hist[i].kind = "comment"
         /\ hist[i].text =
              << <<"/* " \o Str(base_name(hist[i].function)) \o
                   ": calling convention unsupported yet" \o " */">> >>
    /\ hist[i].text #
         << <<"/* " \o Str(hist[i].function) \o
              ": the case of multiple outputs not supported yet" \o " */">> >>

\* A function with two outputs, one of a type the table does not hold, was
\* handed to generate_function.
C2_Witness ==
  \E i \in DOMAIN hist :
    /\ Len(OutputsOf(hist[i].function)) >= 2
    /\ \E k \in DOMAIN ParamsOf(hist[i].function) :
         ParamsOf(hist[i].function)[k].type \notin DOMAIN types

(***************************************************************************)
(* C3.  The receiver of a resolved function is the first IN parameter of   *)
(* type GRAPH, else the first OUT parameter of type GRAPH, else there is   *)
(* none (an INOUT parameter is never the receiver); the argument list      *)
(* holds every IN parameter but the receiver, in declared order.  For      *)
(* igraph_union(a IN INTEGER, b IN GRAPH, c IN GRAPH) the receiver is b    *)
(* and the arguments are a and c.                                          *)
(***************************************************************************)
FirstOf(params, mode) ==
  LET idx == {k \in DOMAIN params :
                params[k].mode = mode /\ params[k].type = "GRAPH"}
  IN  IF idx = {} THEN 0 ELSE CHOOSE k \in idx : \A j \in idx : k <= j

ExpectedReceiver(f) ==
  IF FirstOf(ParamsOf(f), "IN") # 0 THEN FirstOf(ParamsOf(f), "IN")
  ELSE FirstOf(ParamsOf(f), "OUT")

ExpectedArguments(f) ==
  SelectSeq([k \in DOMAIN ParamsOf(f) |->
               IF k = ExpectedReceiver(f) \/ ParamsOf(f)[k].mode # "IN"
               THEN "" ELSE ParamsOf(f)[k].name],
            LAMBDA n : n # "")

ArgumentNames(data) ==
  [k \in DOMAIN data.argument_types |-> data.argument_types[k][3]]

Words(line) == {line[k] : k \in DOMAIN line}

HeaderOf(text) == text[5]

ReceiverNameOf(f) ==
  IF ExpectedReceiver(f) = 0 THEN None
  ELSE ParamsOf(f)[ExpectedReceiver(f)].name

ExpectedArgument(p) ==
  IF "CALL" \in DOMAIN types[p.type]
  THEN Filled(types[p.type]["CALL"], "c_" \o p.name, p.name)
  ELSE <<"c_" \o p.name>>

ExpectedCall(f) ==
  <<"    ", "c__result", "=", Str(f), "(">> \o
  join([k \in DOMAIN ParamsOf(f) |-> ExpectedArgument(ParamsOf(f)[k])], ", ")
  \o <<")", ";">>

Invocations(text, f) ==
  {k \in DOMAIN text :
     \E j \in 1..(Len(text[k]) - 1) :
       text[k][j] = Str(f) /\ text[k][j + 1] = "("}

C7_NativeCall ==
  \A i \in DOMAIN hist :
    hist[i].kind = "code" =>
      /\ Cardinality(Invocations(hist[i].text, hist[i].function)) = 1
      /\ \A k \in Invocations(hist[i].text, hist[i].function) :
           /\ hist[i].text[k] = ExpectedCall(hist[i].function)
           /\ k > 3
           /\ strip(hist[i].text[k - 3]) =
                <<"if", "(", "(*env)->ExceptionCheck(env)", ")", "{">>
           /\ strip(hist[i].text[k - 2]) =
                <<"c__result", "=", "IGRAPH_EINVAL", ";">>
           /\ strip(hist[i].text[k - 1]) = <<"}", "else", "{">>
           /\ strip(hist[i].text[k + 1]) = <<"}">>
           /\ (/\ Str(hist[i].function) = "igraph_vcount"
               /\ "CALL" \notin DOMAIN types["GRAPH"]) =>
                strip(hist[i].text[k]) =
                  <<"c__result", "=", "igraph_vcount", "(", "c_graph", ")", ";">>

\* Code was generated for a function with an IN and an OUT parameter, one
\* of a type with a CALL template and one of a type without.
C7_Witness ==
  \E i \in DOMAIN hist :
    /\ hist[i].kind = "code"
    /\ \E a, b \in DOMAIN ParamsOf(hist[i].function) :
         /\ ParamsOf(hist[i].function)[a].mode = "IN"
         /\ ParamsOf(hist[i].function)[b].mode = "OUT"
         /\ "CALL" \in DOMAIN types[ParamsOf(hist[i].function)[a].type]
         /\ "CALL" \notin DOMAIN types[ParamsOf(hist[i].function)[b].type]

(***************************************************************************)
(* C5.  generate_function always returns normally: a failure while         *)
(* generating one function gives a comment in place of code and no         *)
(* exception leaves generate_function.                                     *)
(***************************************************************************)
C5_ReturnsNormally ==
  /\ raised = None
  /\ \A i \in DOMAIN hist : hist[i].kind \in {"code", "comment", "skipped"}

(***************************************************************************)
(* C6.  On every path through a generated function, every parameter whose  *)
(* type has an input conversion and an output conversion for the           *)
(* parameter's mode has its output conversion executed after its input     *)
(* conversion, and nothing that the input conversions acquired is still    *)
(* held when the function returns.                                         *)
(***************************************************************************)
Converted(p) ==
  /\ "INCONV" \in DOMAIN types[p.type]
  /\ p.mode \in DOMAIN types[p.type]["INCONV"]
  /\ "OUTCONV" \in DOMAIN types[p.type]
  /\ p.mode \in DOMAIN types[p.type]["OUTCONV"]

C6_ResourceRoundTrip ==
  run # NoRun =>
    /\ \A k \in DOMAIN ParamsOf(run.function) :
         Converted(ParamsOf(run.function)[k]) =>
           \E a, b \in DOMAIN run.trace :
             /\ a < b
             /\ run.trace[a] =
                  strip(inconv_par(ParamsOf(run.function)[k],
                                   get_dependencies_for_function(run.function)))
             /\ run.trace[b] = strip(outconv_par(ParamsOf(run.function)[k]))
    /\ run.alloc = {}

(***************************************************************************)
(* C8, as stated.  A function with a parameter whose type is no key of the *)
(* type table gets no output at all, only a log entry; a comment is        *)
(* written only for functions all of whose parameter types are keys of the *)
(* table.                                                                  *)
(***************************************************************************)
AbsentTypes(f) ==
  {ParamsOf(f)[k].type : k \in DOMAIN ParamsOf(f)} \ DOMAIN types

C8_AbsentTypeWritesNothing ==
  \A i \in DOMAIN hist :
    /\ AbsentTypes(hist[i].function) # {} =>
         hist[i].kind = "skipped" /\ hist[i].text = <<>>
    /\ hist[i].kind = "comment" => AbsentTypes(hist[i].function) = {}

(***************************************************************************)
(* C8, amended.  A function with a parameter whose type is no key of the   *)
(* type table never gets code and never makes generate_function raise.     *)
(* When its metadata resolves, which takes that the receiver, an IN        *)
(* parameter, is the only parameter of an absent type, nothing is written  *)
(* and the error is logged; otherwise exactly one comment is written and   *)
(* nothing is logged.                                                      *)
(***************************************************************************)
C8_AbsentTypeSkippedOrCommented ==
  /\ \A i \in DOMAIN hist :
       AbsentTypes(hist[i].function) # {} =>
         /\ hist[i].resolved =>
              /\ hist[i].kind = "skipped"
              /\ hist[i].text = <<>>
              /\ \E t \in AbsentTypes(hist[i].function) :
                   \E k \in DOMAIN log :
                     log[k] = "Unknown type " \o t \o " in " \o
                              Str(hist[i].function)
              /\ \A k \in DOMAIN ParamsOf(hist[i].function) :
                   ParamsOf(hist[i].function)[k].type \notin DOMAIN types =>
                     /\ k = ExpectedReceiver(hist[i].function)
                     /\ ParamsOf(hist[i].function)[k].mode = "IN"
         /\ ~hist[i].resolved =>
              /\ hist[i].kind = "comment"
              /\ Len(hist[i].text) = 1
  /\ (\A i \in DOMAIN hist : ~hist[i].resolved) => log = <<>>

\* A function whose receiver has a type the table does not hold was
\* skipped with a log entry and no output.
C8_Witness ==
  /\ hist # <<>>
  /\ AbsentTypes(Last.function) # {}
  /\ Last.kind = "skipped"
  /\ out = <<>>
  /\ log # <<>>

(***************************************************************************)
(* C9.  The output is the concatenation, in call order, of what each call  *)
(* wrote, and what a call writes for a function is the same whichever      *)
(* functions were generated before it: two calls for the same function     *)
(* write the same text, whatever happened between them.                    *)
(***************************************************************************)
RECURSIVE Concatenated(_)
Concatenated(h) ==
  IF h = <<>> THEN <<>>
  ELSE Concatenated(SubSeq(h, 1, Len(h) - 1)) \o h[Len(h)].text

ReachesOutconv(h) == h.kind \in {"code", "raised"}

ReturnOutTemplate(f) ==
  LET rt == get_function_descriptor(f).return_type
  IN  IF /\ "OUTCONV" \in DOMAIN types[rt]
         /\ "OUT" \in DOMAIN types[rt]["OUTCONV"]
      THEN << <<"  ">> \o
              Filled(types[rt]["OUTCONV"]["OUT"], "c__result", "result") >>
      ELSE <<>>

ParamConversions(f) ==
  nonEmpty([k \in DOMAIN ParamsOf(f) |-> outconv_par(ParamsOf(f)[k])])

C10_ResultResolution ==
  /\ \A i \in DOMAIN hist :
       (ReachesOutconv(hist[i]) /\ Len(OutputsOf(hist[i].function)) = 0) =>
         /\ hist[i].kind = "code"
         /\ Between(hist[i].text, <<"/* Convert output */">>,
                    <<"  ", "Java_igraph_after", "(", ")", ";">>) =
              lines_of(ParamConversions(hist[i].function) \o
                       ReturnOutTemplate(hist[i].function)) \o << <<>> >>
  /\ (run # NoRun /\ Len(OutputsOf(run.function)) = 0
        /\ ReturnOutTemplate(run.function) = <<>>) =>
       run.result = Uninitialized
  /\ (run # NoRun /\ Len(OutputsOf(run.function)) = 1) =>
       /\ run.c__result = 0 =>
            run.result =
              (IF OutputsOf(run.function)[1].mode = "OUT" THEN "j_" ELSE "c_")
              \o OutputsOf(run.function)[1].name
       /\ run.c__result # 0 => run.result = "0"

(***************************************************************************)
(* C11.  In every emitted function body the declarations chunk declares a  *)
(* native local for every parameter (the type's CDECL template if present, *)
(* else '<CTYPE> c_<name>;'), a foreign local j_<name> for every OUT       *)
(* parameter, the native return local c__result and the foreign local      *)
(* result, and it declares 'cls' exactly when the method is not static and *)
(* its resolved return type is GRAPH.  Hence the variables that the call   *)
(* chunk and the result assignment refer to (c_<name>, c__result,          *)
(* j_<name>, result) are declared in the body.                             *)
(***************************************************************************)
DeclarationsOf(text) ==
  Between(text, <<"/* Declarations */">>,
          <<"  ", "Java_igraph_before", "(", ")", ";">>)

\* The names the declarations chunk of a body declares: a declaration
\* names the variable as a token of its own.
DeclaredIn(text) ==
  UNION {Words(DeclarationsOf(text)[k]) : k \in DOMAIN DeclarationsOf(text)}

ExpectedNativeLocal(p) ==
  IF "CDECL" \in DOMAIN types[p.type]
  THEN <<"  ">> \o Filled(types[p.type]["CDECL"], "c_" \o p.name, p.name)
  ELSE <<"  ", Lookup(p.type, "CTYPE"), " ", "c_" \o p.name, ";">>

NativeLocalsDeclared(h) ==
  \A k \in DOMAIN ParamsOf(h.function) :
    /\ \E d \in DOMAIN DeclarationsOf(h.text) :
         DeclarationsOf(h.text)[d] =
           ExpectedNativeLocal(ParamsOf(h.function)[k])
    /\ "c_" \o ParamsOf(h.function)[k].name \in DeclaredIn(h.text)

ForeignLocalsDeclared(h) ==
  \A k \in DOMAIN ParamsOf(h.function) :
    ParamsOf(h.function)[k].mode = "OUT" =>
      "j_" \o ParamsOf(h.function)[k].name \in DeclaredIn(h.text)

ClassLocalDeclared(h) ==
  "cls" \in DeclaredIn(h.text)
    <=> /\ ReceiverNameOf(h.function) # None
        /\ ExpectedReturnTypeName(h.function) = "GRAPH"

C11_Declarations ==
  \A i \in DOMAIN hist :
    hist[i].kind = "code" =>
      /\ NativeLocalsDeclared(hist[i])
      /\ ForeignLocalsDeclared(hist[i])
      /\ "c__result" \in DeclaredIn(hist[i].text)
      /\ "result" \in DeclaredIn(hist[i].text)
      /\ ClassLocalDeclared(hist[i])

====
